---- MODULE Spec2Model ----
(***************************************************************************)
(* Model of downstate_dashboard.py: one rendering pass of main(), i.e. the *)
(* cursor-paged fetch from OpenAlex, the flattening of the works into a    *)
(* table, the year-range filter, the metrics, the four chart tabs and the  *)
(* data table.                                                             *)
(*                                                                         *)
(* JSON / Python values.  A JSON member that may be missing is a record    *)
(* [k, v] with k = "absent" (no such key), "null" (JSON null, Python None) *)
(* or "val".  A Python value that may be None uses k \in {"null","val"}.   *)
(* Text that is joined and split (author and topic names) is a sequence of *)
(* atoms, so that ", ".join and str.split(", ") are computed, not assumed. *)
(***************************************************************************)
EXTENDS Integers, Sequences, FiniteSets, TLC

VARIABLES pc, params, all_results, requests, responses, ui, df,
          min_year, max_year, year_range, filtered_df, metrics,
          topics, authors, charts, raised

vars == <<pc, params, all_results, requests, responses, ui, df,
          min_year, max_year, year_range, filtered_df, metrics,
          topics, authors, charts, raised>>

\* ---------------------------------------------------------------- bounds
MaxRequests == 3
MaxPageLen == 2
MaxTotal == 3
MaxRecords == 3
MaxSpan == 2

\* ------------------------------------------------------- optional values
AbsentInt == [k |-> "absent", v |-> 0]
NullInt == [k |-> "null", v |-> 0]
AbsentBool == [k |-> "absent", v |-> FALSE]
NullBool == [k |-> "null", v |-> FALSE]
AbsentStr == [k |-> "absent", v |-> ""]
NullStr == [k |-> "null", v |-> ""]
AbsentText == [k |-> "absent", v |-> <<>>]
NullText == [k |-> "null", v |-> <<>>]
AbsentList == [k |-> "absent", v |-> <<>>]
NullList == [k |-> "null", v |-> <<>>]

Val(x) == [k |-> "val", v |-> x]

\* dict.get(key, default): the default only replaces a missing key
Get(member, default) == IF member.k = "absent" THEN Val(default) ELSE member

\* dict.get(key): None for a missing key
GetOrNone(member) == IF member.k = "absent" THEN [member EXCEPT !.k = "null"] ELSE member

\* Python truthiness of a str-or-None
TruthyStr(s) == s.k = "val" /\ s.v # ""

\* Python truthiness of a list-or-None
TruthyList(l) == l.k = "val" /\ l.v # <<>>

\* ------------------------------------------------------------- the works
Author(name) == [author |-> [k |-> "val", display_name |-> Val(<<name>>)]]
NoAuthorKey == [author |-> [k |-> "absent", display_name |-> AbsentText]]
Concept(name) == [display_name |-> Val(<<name>>)]
NoConceptName == [display_name |-> AbsentText]
OpenAccess(flag) == [k |-> "val", is_oa |-> flag]

\* the record of end-to-end scenario 1
ScenarioWork ==
  [title |-> Val("A"), publication_year |-> Val(2020), cited_by_count |-> Val(5),
   open_access |-> OpenAccess(Val(TRUE)), type |-> Val("article"),
   authorships |-> Val(<<Author("X")>>), doi |-> Val("d1"),
   concepts |-> Val(<<Concept("Biology")>>)]

\* the empty JSON object {}
BareWork ==
  [title |-> AbsentStr, publication_year |-> AbsentInt, cited_by_count |-> AbsentInt,
   open_access |-> [k |-> "absent", is_oa |-> AbsentBool], type |-> AbsentStr,
   authorships |-> AbsentList, doi |-> AbsentStr, concepts |-> AbsentList]

\* a dated work whose other members are absent
DatedWork == [BareWork EXCEPT !.publication_year = Val(2021)]

\* members present but null / empty
NullWork ==
  [title |-> NullStr, publication_year |-> Val(2022), cited_by_count |-> NullInt,
   open_access |-> OpenAccess(AbsentBool), type |-> Val("article"),
   authorships |-> NullList, doi |-> NullStr, concepts |-> Val(<<>>)]

\* "open_access": null
OaNullWork == [ScenarioWork EXCEPT !.open_access = [k |-> "null", is_oa |-> AbsentBool]]

\* an authorships entry without "author"
NoAuthorWork == [ScenarioWork EXCEPT !.authorships = Val(<<Author("X"), NoAuthorKey>>)]

\* a concepts entry without "display_name"
NoConceptNameWork == [ScenarioWork EXCEPT !.concepts = Val(<<NoConceptName>>)]

\* six authors, two topics
SixAuthorsWork ==
  [title |-> Val("B"), publication_year |-> Val(2022), cited_by_count |-> Val(0),
   open_access |-> OpenAccess(Val(FALSE)), type |-> Val("article"),
   authorships |-> Val(<<Author("P"), Author("Q"), Author("R"),
                         Author("S"), Author("T"), Author("X")>>),
   doi |-> AbsentStr,
   concepts |-> Val(<<Concept("Biology"), Concept("Medicine")>>)]

\* "is_oa": null and a null display_name-free record otherwise like scenario 1
NullFlagWork == [ScenarioWork EXCEPT !.open_access = OpenAccess(NullBool)]

\* the shapes of work given to process_data
Works == {ScenarioWork, BareWork, DatedWork, NullWork, NullFlagWork, OaNullWork,
          NoAuthorWork, NoConceptNameWork, SixAuthorsWork}

\* the shapes of work the modelled upstream serves
UpstreamWorks == {ScenarioWork, BareWork, NullWork, NoAuthorWork, SixAuthorsWork}

\* ---------------------------------------------------------- the upstream
RECURSIVE SeqsUpTo(_, _)
SeqsUpTo(S, n) ==
  IF n = 0 THEN {<<>>}
  ELSE LET shorter == SeqsUpTo(S, n - 1)
       IN shorter \cup {Append(s, x) : s \in {t \in shorter : Len(t) = n - 1}, x \in S}

Cursors == {"abc", "def"}

\* meta.next_cursor: a token, the empty string, null, or no such key
NextCursors == {Val(c) : c \in Cursors} \cup {Val(""), NullStr, AbsentStr}

\* a 200 response with its decoded JSON body
Pages(room) ==
  [status : {200},
   results : SeqsUpTo(UpstreamWorks, IF room < MaxPageLen THEN room ELSE MaxPageLen),
   next_cursor : NextCursors]

\* a non-200 response; its body is not decoded
Failures == [status : {500}, results : {<<>>}, next_cursor : {AbsentStr, Val("abc")}]

\* ------------------------------------------------------------------ main
OPENALEX_API == "https://api.openalex.org/works"
DOWNSTATE_ID == "I97018004"

InitialParams ==
  [filter |-> <<"institutions.id:", DOWNSTATE_ID>>, per_page |-> 200,
   cursor |-> "*", mailto |-> "your.email@example.com"]

Element(kind, label) == [kind |-> kind, label |-> label, detail |-> ""]

\* ---------------------------------------------------------- process_data
Columns == <<"Title", "Year", "Citations", "OA", "Type", "Authors", "DOI", "Topics">>

\* the outcome of evaluating an expression: a value, or the exception raised
Ok(x) == [exc |-> "", detail |-> "", value |-> x]
Raise(exc, detail) == [exc |-> exc, detail |-> detail, value |-> <<>>]

\* sep.join(texts)
RECURSIVE Join(_, _)
Join(sep, texts) ==
  IF texts = <<>> THEN <<>>
  ELSE IF Len(texts) = 1 THEN Head(texts)
  ELSE Head(texts) \o <<sep>> \o Join(sep, Tail(texts))

\* a["author"]["display_name"]
AuthorName(a) ==
  IF a.author.k = "absent" THEN Raise("KeyError", "'author'")
  ELSE IF a.author.k = "null" THEN Raise("TypeError", "'NoneType' object is not subscriptable")
  ELSE IF a.author.display_name.k = "absent" THEN Raise("KeyError", "'display_name'")
  ELSE Ok(a.author.display_name)

\* c["display_name"]
ConceptName(c) ==
  IF c.display_name.k = "absent" THEN Raise("KeyError", "'display_name'")
  ELSE Ok(c.display_name)

\* ", ".join([...]) over the outcomes of the comprehension's elements: the
\* comprehension raises at its first element that raises; join raises on None
JoinNames(outcomes) ==
  LET bad == {i \in 1..Len(outcomes) : outcomes[i].exc # ""}
      first == CHOOSE i \in bad : \A j \in bad : i <= j
  IN IF bad # {} THEN outcomes[first]
     ELSE IF \E i \in 1..Len(outcomes) : outcomes[i].value.k = "null"
     THEN Raise("TypeError", "sequence item: expected str instance, NoneType found")
     ELSE Ok(Join(", ", [i \in 1..Len(outcomes) |-> outcomes[i].value.v]))

\* line 44
AuthorsOf(work) ==
  IF TruthyList(GetOrNone(work.authorships))
  THEN JoinNames([i \in 1..Len(work.authorships.v) |-> AuthorName(work.authorships.v[i])])
  ELSE Ok(<<"Unknown">>)

\* line 46
TopicsOf(work) ==
  IF TruthyList(GetOrNone(work.concepts))
  THEN JoinNames([i \in 1..Len(work.concepts.v) |-> ConceptName(work.concepts.v[i])])
  ELSE Ok(<<"No topics">>)

\* line 42: work.get("open_access", {}).get("is_oa", False)
OaOf(work) ==
  IF work.open_access.k = "absent" THEN Ok(Val(FALSE))
  ELSE IF work.open_access.k = "null"
  THEN Raise("AttributeError", "'NoneType' object has no attribute 'get'")
  ELSE Ok(Get(work.open_access.is_oa, FALSE))

\* lines 38-49: the dict display, evaluated in key order
Entry(work) ==
  LET oa == OaOf(work)
      names == AuthorsOf(work)
      concepts == TopicsOf(work)
  IN IF oa.exc # "" THEN oa
     ELSE IF names.exc # "" THEN names
     ELSE IF concepts.exc # "" THEN concepts
     ELSE Ok([Title |-> Get(work.title, "No title"),
              Year |-> GetOrNone(work.publication_year),
              Citations |-> Get(work.cited_by_count, 0),
              OA |-> oa.value,
              Type |-> Get(work.type, "unknown"),
              Authors |-> names.value,
              DOI |-> Get(work.doi, "No DOI"),
              Topics |-> concepts.value])

\* lines 50-52: what one iteration of the for loop adds to data and to the page
WorkRows(work) == IF Entry(work).exc = "" THEN <<Entry(work).value>> ELSE <<>>

WorkWarnings(work) ==
  IF Entry(work).exc = "" THEN <<>>
  ELSE <<[kind |-> "warning", label |-> "Skipping a record due to error: ",
          detail |-> Entry(work).detail]>>

\* ProcessLoop with the try around the loop instead of its body: the first
\* record that raises ends the batch
RECURSIVE ProcessLoopAbort(_)
ProcessLoopAbort(publications) ==
  IF publications = <<>> THEN [data |-> <<>>, warnings |-> <<>>]
  ELSE IF Entry(Head(publications)).exc # ""
  THEN [data |-> <<>>, warnings |-> WorkWarnings(Head(publications))]
  ELSE LET rest == ProcessLoopAbort(Tail(publications))
       IN [data |-> WorkRows(Head(publications)) \o rest.data,
           warnings |-> rest.warnings]

\* lines 35-52: the for loop; data and the st.warning calls, in order
RECURSIVE ProcessLoop(_)
ProcessLoop(publications) ==
  IF publications = <<>> THEN [data |-> <<>>, warnings |-> <<>>]
  ELSE LET rest == ProcessLoop(Tail(publications))
       IN [data |-> WorkRows(Head(publications)) \o rest.data,
           warnings |-> WorkWarnings(Head(publications)) \o rest.warnings]

\* pd.DataFrame(data): a frame built from no dicts has no columns
DataFrame(data) ==
  IF data = <<>> THEN [columns |-> <<>>, rows |-> <<>>]
  ELSE [columns |-> Columns, rows |-> data]

\* process_data
ProcessData(publications) ==
  [df |-> DataFrame(ProcessLoop(publications).data),
   warnings |-> ProcessLoop(publications).warnings]

\* an exception that left main, with the line that raised it
Raised(exc, line) == [exc |-> exc, line |-> line]
NotRaised == Raised("", 0)

NoFrame == [columns |-> <<>>, rows |-> <<>>]
NoMetrics == [total |-> 0, oa_rate |-> [nan |-> FALSE, tenths |-> 0],
              avg_citations |-> [nan |-> FALSE, tenths |-> 0]]

Init ==
  /\ pc = "start"
  /\ params = InitialParams
  /\ all_results = <<>>
  /\ requests = <<>>
  /\ responses = <<>>
  /\ ui = <<>>
  /\ df = NoFrame
  /\ min_year = 0
  /\ max_year = 0
  /\ year_range = <<0, 0>>
  /\ filtered_df = NoFrame
  /\ metrics = NoMetrics
  /\ topics = <<>>
  /\ authors = <<>>
  /\ charts = <<>>
  /\ raised = NotRaised

\* main, lines 57-58, and the entry into get_all_downstate_publications
MainStart ==
  /\ pc = "start"
  /\ ui' = ui \o <<Element("title", "SUNY Downstate Publications Dashboard"),
                   Element("caption", "Data from OpenAlex API")>>
  /\ pc' = "fetch"
  /\ UNCHANGED <<params, all_results, requests, responses, df, min_year, max_year,
                 year_range, filtered_df, metrics, topics, authors, charts, raised>>

\* FetchFailed with the break lost: the loop goes on after a failed request
FetchFailedRetry(response) ==
  /\ response.status # 200
  /\ ui' = Append(ui, Element("error", "Failed to fetch data from OpenAlex"))
  /\ pc' = "fetch"
  /\ UNCHANGED <<params, all_results>>

\* one iteration of the while loop: the status check
FetchFailed(response) ==
  /\ response.status # 200
  /\ ui' = Append(ui, Element("error", "Failed to fetch data from OpenAlex"))
  /\ pc' = "render"
  /\ UNCHANGED <<params, all_results>>

\* FetchPage with the page put in front of the accumulated results
FetchPagePrepend(response) ==
  /\ response.status = 200
  /\ all_results' = response.results \o all_results
  /\ LET next_cursor == GetOrNone(response.next_cursor)
     IN IF ~TruthyStr(next_cursor)
        THEN pc' = "render" /\ UNCHANGED params
        ELSE pc' = "fetch" /\ params' = [params EXCEPT !.cursor = next_cursor.v]
  /\ UNCHANGED ui

\* FetchPage with line 29 lost: the cursor of the first request is sent again
FetchPageStaleCursor(response) ==
  /\ response.status = 200
  /\ all_results' = all_results \o response.results
  /\ LET next_cursor == GetOrNone(response.next_cursor)
     IN IF ~TruthyStr(next_cursor)
        THEN pc' = "render" /\ UNCHANGED params
        ELSE pc' = "fetch" /\ UNCHANGED params
  /\ UNCHANGED ui

\* one iteration of the while loop: a decoded page
FetchPage(response) ==
  /\ response.status = 200
  /\ all_results' = all_results \o response.results
  /\ LET next_cursor == GetOrNone(response.next_cursor)
     IN IF ~TruthyStr(next_cursor)
        THEN pc' = "render" /\ UNCHANGED params
        ELSE pc' = "fetch" /\ params' = [params EXCEPT !.cursor = next_cursor.v]
  /\ UNCHANGED ui

\* requests.get(OPENALEX_API, params=params) and the rest of the iteration
Fetch ==
  /\ pc = "fetch"
  /\ Len(requests) < MaxRequests
  /\ \E response \in Pages(MaxTotal - Len(all_results)) \cup Failures :
       /\ requests' = Append(requests, [url |-> OPENALEX_API, params |-> params])
       /\ responses' = Append(responses, response)
       /\ FetchFailed(response) \/ FetchPage(response)
  /\ UNCHANGED <<df, min_year, max_year, year_range, filtered_df, metrics,
                 topics, authors, charts, raised>>

\* ------------------------------------------------------- main, lines 62-127
\* the locals of main and the page rendered so far
Locals ==
  [ui |-> ui, df |-> df, min_year |-> min_year, max_year |-> max_year,
   year_range |-> year_range, filtered_df |-> filtered_df, metrics |-> metrics,
   topics |-> topics, authors |-> authors, charts |-> charts, raised |-> raised]

Emit(s, elements) == [s EXCEPT !.ui = s.ui \o elements]

Widget(kind, label) == [kind |-> kind, label |-> label, detail |-> ""]

\* the non-null values of a column, in row order
RECURSIVE NonNull(_, _)
NonNull(rows, column) ==
  IF rows = <<>> THEN <<>>
  ELSE (IF Head(rows)[column].k = "val" THEN <<Head(rows)[column].v>> ELSE <<>>)
       \o NonNull(Tail(rows), column)

Range(seq) == {seq[i] : i \in 1..Len(seq)}

SetMin(S) == CHOOSE x \in S : \A y \in S : x <= y
SetMax(S) == CHOOSE x \in S : \A y \in S : y <= x

\* line 62
LoadStage(s, publications) ==
  [Emit(s, ProcessData(publications).warnings) EXCEPT !.df = ProcessData(publications).df]

\* lines 65-67: Series.min() skips NaN and is NaN for a column of None only,
\* which int() rejects
BoundsStage(s0) ==
  LET s == Emit(s0, <<Widget("sidebar.header", "Filters")>>)
      years == Range(NonNull(s.df.rows, "Year"))
  IN IF s.df.rows = <<>> THEN [s EXCEPT !.min_year = 2000, !.max_year = 2025]
     ELSE IF years = {} THEN [s EXCEPT !.raised = Raised("ValueError", 66)]
     ELSE [s EXCEPT !.min_year = SetMin(years), !.max_year = SetMax(years)]

\* the pairs a range slider over min_value..max_value can return; the
\* selections explored are the default and those within MaxSpan of min_value
SliderValues(s) ==
  IF s.raised # NotRaised THEN {s.year_range}
  ELSE LET top == IF s.max_year < s.min_year + MaxSpan THEN s.max_year
                  ELSE s.min_year + MaxSpan
       IN {<<s.min_year, s.max_year>>}
          \cup {<<lo, hi>> \in (s.min_year..top) \X (s.min_year..top) : lo <= hi}

\* lines 68-73
SliderStage(s, selected) ==
  IF s.raised # NotRaised THEN s
  ELSE [Emit(s, <<Widget("sidebar.slider", "Publication Year")>>)
          EXCEPT !.year_range = selected]

\* df[(df["Year"] >= lo) & (df["Year"] <= hi)]: a comparison with NaN is False
RECURSIVE MaskRows(_, _, _)
MaskRows(rows, lo, hi) ==
  IF rows = <<>> THEN <<>>
  ELSE (IF /\ Head(rows).Year.k = "val"
           /\ Head(rows).Year.v >= lo
           /\ Head(rows).Year.v <= hi
        THEN <<Head(rows)>> ELSE <<>>)
       \o MaskRows(Tail(rows), lo, hi)

\* line 74: df["Year"] raises KeyError when the frame has no such column
FilterStage(s) ==
  IF s.raised # NotRaised THEN s
  ELSE IF "Year" \notin Range(s.df.columns) THEN [s EXCEPT !.raised = Raised("KeyError", 74)]
  ELSE [s EXCEPT !.filtered_df =
          [columns |-> s.df.columns,
           rows |-> MaskRows(s.df.rows, s.year_range[1], s.year_range[2])]]

RECURSIVE Sum(_)
Sum(seq) == IF seq = <<>> THEN 0 ELSE Head(seq) + Sum(Tail(seq))

\* num/den rounded to an integer, halves to even
RoundHalfEven(num, den) ==
  LET q == num \div den
      r == num % den
  IN IF 2 * r < den THEN q
     ELSE IF 2 * r > den THEN q + 1
     ELSE IF q % 2 = 0 THEN q ELSE q + 1

NaN == [nan |-> TRUE, tenths |-> 0]

\* Series.mean() in tenths (scale = 10) or tenths of a percent (scale = 1000),
\* NaN when no value is left after skipping the missing ones
Mean(values, scale) ==
  IF values = <<>> THEN NaN
  ELSE [nan |-> FALSE, tenths |-> RoundHalfEven(scale * Sum(values), Len(values))]

Flags(bools) == [i \in 1..Len(bools) |-> IF bools[i] THEN 1 ELSE 0]

\* lines 77-83.  The mean of no values is NaN; whether that NaN is a numpy
\* scalar (round(1) gives NaN) or a Python float (round is no attribute) is
\* left open: both outcomes are produced
MetricsStage(s0) ==
  IF s0.raised # NotRaised THEN {s0}
  ELSE
    LET rows == s0.filtered_df.rows
        oa == Mean(Flags(NonNull(rows, "OA")), 1000)
        avg == Mean(NonNull(rows, "Citations"), 10)
        s == Emit([s0 EXCEPT !.metrics.total = Len(rows), !.metrics.oa_rate = oa],
                  <<Widget("columns", "3"), Widget("metric", "Total Publications"),
                    Widget("metric", "Open Access Rate")>>)
        shown == Emit([s EXCEPT !.metrics.avg_citations = avg],
                      <<Widget("metric", "Avg Citations")>>)
    IN IF avg.nan THEN {shown, [s EXCEPT !.raised = Raised("AttributeError", 83)]}
       ELSE {shown}

\* str.split(sep) on one text
RECURSIVE Split(_, _)
Split(sep, text) ==
  LET at == {i \in 1..Len(text) : text[i] = sep}
  IN IF at = {} THEN <<text>>
     ELSE <<SubSeq(text, 1, SetMin(at) - 1)>>
          \o Split(sep, SubSeq(text, SetMin(at) + 1, Len(text)))

\* Series.str.split(", ").explode()
RECURSIVE Explode(_, _)
Explode(rows, column) ==
  IF rows = <<>> THEN <<>>
  ELSE Split(", ", Head(rows)[column]) \o Explode(Tail(rows), column)

\* Series.value_counts()
ValueCounts(keys) ==
  [key \in Range(keys) |-> Cardinality({i \in 1..Len(keys) : keys[i] = key})]

\* .head(n) of a value_counts result: n most frequent keys with their counts
TopCounts(counts, n) ==
  LET keys == DOMAIN counts
      size == IF Cardinality(keys) < n THEN Cardinality(keys) ELSE n
      top == CHOOSE T \in SUBSET keys :
               /\ Cardinality(T) = size
               /\ \A in \in T, out \in keys \ T : counts[in] >= counts[out]
  IN {<<key, counts[key]>> : key \in top}

\* groupby("Year").size()
YearCounts(rows) ==
  LET years == NonNull(rows, "Year")
  IN {<<y, Cardinality({i \in 1..Len(years) : years[i] = y})>> : y \in Range(years)}

Chart(title, data) == [title |-> title, data |-> data]

Plot(s, chart) ==
  [Emit(s, <<Widget("plotly_chart", chart.title)>>) EXCEPT !.charts = Append(s.charts, chart)]

\* lines 86-109.  A scatter whose size column holds NaN is either drawn or
\* rejected by the plotting library: both outcomes are produced
TabsStage(s0) ==
  IF s0.raised # NotRaised THEN {s0}
  ELSE
    LET rows == s0.filtered_df.rows
        s1 == Emit(s0, <<Widget("tabs", "Trends, Topics, Authors, Citations")>>)
        s2 == Plot(s1, Chart("Publication Trends", YearCounts(rows)))
        s3 == Plot([s2 EXCEPT !.topics = Explode(rows, "Topics")],
                   Chart("Top Research Topics",
                         TopCounts(ValueCounts(Explode(rows, "Topics")), 10)))
        s4 == Plot([s3 EXCEPT !.authors = Explode(rows, "Authors")],
                   Chart("Most Prolific Authors",
                         TopCounts(ValueCounts(Explode(rows, "Authors")), 10)))
        points == [i \in 1..Len(rows) |-> <<rows[i].Year, rows[i].Citations>>]
        drawn == Plot(s4, Chart("Citation Distribution Over Time", points))
    IN IF \E i \in 1..Len(rows) : rows[i].Citations.k = "null"
       THEN {drawn, [s4 EXCEPT !.raised = Raised("ValueError", 106)]}
       ELSE {drawn}

\* lines 126-127
TableStage(s) ==
  IF s.raised # NotRaised THEN s
  ELSE Emit(s, <<Widget("subheader", "Publication Details"),
                 Widget("dataframe", "filtered_df")>>)

\* the outcomes of main after the fetch
Passes(s0) ==
  LET bounded == BoundsStage(LoadStage(s0, all_results))
      filtered == {FilterStage(SliderStage(bounded, selected)) :
                     selected \in SliderValues(bounded)}
      measured == UNION {MetricsStage(s) : s \in filtered}
      plotted == UNION {TabsStage(s) : s \in measured}
  IN {TableStage(s) : s \in plotted}

Render ==
  /\ pc = "render"
  /\ \E s \in Passes(Locals) :
       /\ ui' = s.ui
       /\ df' = s.df
       /\ min_year' = s.min_year
       /\ max_year' = s.max_year
       /\ year_range' = s.year_range
       /\ filtered_df' = s.filtered_df
       /\ metrics' = s.metrics
       /\ topics' = s.topics
       /\ authors' = s.authors
       /\ charts' = s.charts
       /\ raised' = s.raised
  /\ pc' = "done"
  /\ UNCHANGED <<params, all_results, requests, responses>>

\* process_data applied to a list of works on its own
InitNormalize ==
  /\ pc = "normalize"
  /\ params = InitialParams
  /\ all_results \in SeqsUpTo(Works, MaxRecords)
  /\ requests = <<>>
  /\ responses = <<>>
  /\ ui = <<>>
  /\ df = NoFrame
  /\ min_year = 0
  /\ max_year = 0
  /\ year_range = <<0, 0>>
  /\ filtered_df = NoFrame
  /\ metrics = NoMetrics
  /\ topics = <<>>
  /\ authors = <<>>
  /\ charts = <<>>
  /\ raised = NotRaised

Normalize ==
  /\ pc = "normalize"
  /\ df' = ProcessData(all_results).df
  /\ ui' = ui \o ProcessData(all_results).warnings
  /\ pc' = "normalized"
  /\ UNCHANGED <<params, all_results, requests, responses, min_year, max_year,
                 year_range, filtered_df, metrics, topics, authors, charts, raised>>

NextNormalize == Normalize

NormalizeSpec == InitNormalize /\ [][NextNormalize]_vars

Next == MainStart \/ Fetch \/ Render

Spec == Init /\ [][Next]_vars
\* ============================================================ properties
\* the fetch has returned to main
Fetched == pc \in {"render", "done"}

\* a 200 response that names a further page
Continuing(r) == r.status = 200 /\ r.next_cursor.k = "val" /\ r.next_cursor.v # ""

\* a 200 response whose meta has no next_cursor, or a null one
LastPage(r) == r.status = 200 /\ r.next_cursor.k \in {"absent", "null"}

\* the results of the first n responses, in page order
RECURSIVE PagesConcat(_, _)
PagesConcat(pages, n) ==
  IF n = 0 THEN <<>> ELSE PagesConcat(pages, n - 1) \o pages[n].results

Notices(kind) == {i \in 1..Len(ui) : ui[i].kind = kind}

\* C1: when the source serves N pages with status 200, the first N-1 with a
\* non-empty next_cursor and the N-th with none (absent or null), the fetch
\* issues exactly N requests, is over after the N-th, and returns the pages'
\* results concatenated in page order and within-page order.
C1_PagingComplete ==
  /\ pc = "fetch" => \A i \in 1..Len(responses) : Continuing(responses[i])
  /\ Fetched =>
       \E n \in 1..Len(responses) :
         /\ \A i \in 1..(n - 1) : Continuing(responses[i])
         /\ ~Continuing(responses[n])
         /\ LastPage(responses[n]) =>
              /\ Len(requests) = n
              /\ Len(responses) = n
              /\ all_results = PagesConcat(responses, n)

\* scenario 3 with a two-record first page: next_cursor "abc", then no key
C1_Witness ==
  /\ Fetched
  /\ Len(requests) = 2
  /\ Len(responses[1].results) = 2
  /\ responses[1].results[1] # responses[1].results[2]
  /\ responses[1].next_cursor = Val("abc")
  /\ Len(responses[2].results) = 1
  /\ responses[2].next_cursor = AbsentStr
  /\ Len(all_results) = 3

\* C2: when the k-th request gets a non-200 status, no further request is
\* issued, exactly one error notice is shown, nothing is raised to main, and
\* the fetch returns the results of the k-1 earlier pages (none when k = 1).
C2_AbortOnFailure ==
  \A k \in 1..Len(responses) :
    responses[k].status # 200 =>
      /\ Len(responses) = k
      /\ Len(requests) = k
      /\ Fetched
      /\ Cardinality(Notices("error")) = 1
      /\ all_results = PagesConcat(responses, k - 1)
      /\ pc = "render" => raised = NotRaised

\* the second request fails after a first page of results
C2_Witness ==
  /\ pc = "render"
  /\ Len(responses) = 2
  /\ responses[2].status = 500
  /\ Len(responses[1].results) = 2
  /\ all_results = responses[1].results

\* C10: the first request carries cursor "*", each later request carries the
\* next_cursor of the response before it, and url, filter, per-page = 200 and
\* mailto are the same in every request of the run.
C10_CursorChain ==
  \A i \in 1..Len(requests) :
    /\ requests[i].params.cursor =
         (IF i = 1 THEN "*" ELSE responses[i - 1].next_cursor.v)
    /\ i > 1 => Continuing(responses[i - 1])
    /\ requests[i].url = OPENALEX_API
    /\ requests[i].params.filter = <<"institutions.id:", "I97018004">>
    /\ requests[i].params.per_page = 200
    /\ requests[i].params.mailto = requests[1].params.mailto

\* three requests, the second and third with different tokens
C10_Witness ==
  /\ Len(requests) = 3
  /\ requests[1].params.cursor = "*"
  /\ requests[2].params.cursor = "abc"
  /\ requests[3].params.cursor = "def"
\* a list member from which line 44 or line 46 cannot read a name
BadEntries(work) ==
  \/ /\ TruthyList(work.authorships)
     /\ \E i \in 1..Len(work.authorships.v) :
          \/ work.authorships.v[i].author.k # "val"
          \/ work.authorships.v[i].author.display_name.k # "val"
  \/ /\ TruthyList(work.concepts)
     /\ \E i \in 1..Len(work.concepts.v) :
          work.concepts.v[i].display_name.k # "val"

\* a work whose extraction raises
Malformed(work) == work.open_access.k = "null" \/ BadEntries(work)

RECURSIVE WellFormed(_)
WellFormed(works) ==
  IF works = <<>> THEN <<>>
  ELSE (IF Malformed(Head(works)) THEN <<>> ELSE <<Head(works)>>)
       \o WellFormed(Tail(works))

\* C6: a record whose extraction raises is skipped with exactly one non-fatal
\* warning and does not end the batch: every other record yields its row,
\* process_data raises nothing, and the rows keep the order of their records.
C6_SkipMalformed ==
  pc = "normalized" =>
    LET kept == WellFormed(all_results)
    IN /\ Len(df.rows) = Len(kept)
       /\ \A i \in 1..Len(kept) : df.rows[i] = Entry(kept[i]).value
       /\ Cardinality(Notices("warning")) = Len(all_results) - Len(kept)
       /\ Notices("error") = {}
       /\ raised = NotRaised

\* a record without "author" between two well-formed ones
C6_Witness ==
  /\ pc = "normalized"
  /\ all_results = <<SixAuthorsWork, NoAuthorWork, ScenarioWork>>
  /\ Len(df.rows) = 2
  /\ df.rows[1].Title = Val("B")
  /\ df.rows[2].Title = Val("A")
  /\ Cardinality(Notices("warning")) = 1

\* C3: every row of the table has an integer Year, and the row count is the
\* input length minus the records without an integer publication_year and
\* minus the records skipped as malformed.
C3_IntegerYear ==
  pc = "normalized" =>
    /\ \A i \in 1..Len(df.rows) : df.rows[i].Year.k = "val"
    /\ Len(df.rows) =
         Len(all_results)
         - Cardinality({i \in 1..Len(all_results) :
                          \/ Malformed(all_results[i])
                          \/ all_results[i].publication_year.k # "val"})

\* C7: an absent or null member is replaced by its default instead of failing
\* or dropping the record: no row has a null Citations or OA, Authors and
\* Topics are never empty, their split yields no empty key, and only records
\* with an unreadable list entry are skipped.
C7_Defaults ==
  pc = "normalized" =>
    /\ \A i \in 1..Len(df.rows) :
         /\ df.rows[i].Citations.k = "val"
         /\ df.rows[i].OA.k = "val"
         /\ df.rows[i].Authors # <<>>
         /\ df.rows[i].Topics # <<>>
         /\ <<>> \notin Range(Split(", ", df.rows[i].Authors))
         /\ <<>> \notin Range(Split(", ", df.rows[i].Topics))
    /\ Cardinality(Notices("warning")) =
         Cardinality({i \in 1..Len(all_results) : BadEntries(all_results[i])})

\* the truncation marker (the horizontal ellipsis, U+2026)
Marker == "[U+2026]"

\* C8: the Authors value of a row holds at most the first 5 display names,
\* followed by the marker when the record has more than 5 authorships.
C8_AuthorsTruncated ==
  pc = "normalized" =>
    \A i \in 1..Len(df.rows) :
      LET names == Split(", ", df.rows[i].Authors)
      IN Cardinality({j \in 1..Len(names) : names[j] # <<Marker>>}) <= 5

\* the rows of a table with lo <= Year <= hi, in table order
RECURSIVE InRange(_, _, _)
InRange(rows, lo, hi) ==
  IF rows = <<>> THEN <<>>
  ELSE LET row == Head(rows)
       IN (IF row.Year.k = "val" /\ lo <= row.Year.v /\ row.Year.v <= hi
           THEN <<row>> ELSE <<>>) \o InRange(Tail(rows), lo, hi)

\* C4: for every table and selection (lo, hi) the filtered view of main holds
\* exactly the rows with lo <= Year <= hi, in table order and unchanged, and
\* computing it raises no error.
C4_FilterExact ==
  (pc = "done" /\ raised.line # 66) =>
    /\ raised.line # 74
    /\ filtered_df.rows = InRange(df.rows, year_range[1], year_range[2])

\* C5: a pass whose table or filtered view is empty does not raise, uses the
\* bounds 2000..2025 when the full table is empty, shows a "no data" notice,
\* renders no chart, and reports no NaN open-access rate or mean citations.
C5_EmptyHandled ==
  (pc = "done" /\ filtered_df.rows = <<>>) =>
    /\ raised = NotRaised
    /\ df.rows = <<>> => (min_year = 2000 /\ max_year = 2025)
    /\ \E i \in 1..Len(ui) :
         /\ ui[i].kind \in {"info", "warning"}
         /\ ui[i].label # "Skipping a record due to error: "
    /\ charts = <<>>
    /\ ~metrics.oa_rate.nan
    /\ ~metrics.avg_citations.nan

\* C9: every pass that runs to its end offers a download action for the
\* filtered view as CSV.
C9_Download ==
  (pc = "done" /\ raised = NotRaised) =>
    \E i \in 1..Len(ui) : ui[i].kind = "download_button"
====
